---- MODULE Spec2Model ----
(***************************************************************************)
(* A model of src/lang/function.js: the extensions Prototype mixes into    *)
(* Function.prototype (argumentNames, bind, bindAsEventListener, curry,    *)
(* delay, defer, wrap, methodize).                                         *)
(*                                                                         *)
(* JavaScript values are strings naming them.  Function objects are        *)
(* references: the user's functions, Function.prototype, and the closures  *)
(* the methods create, which live in `heap` under fresh identifiers.       *)
(* Argument lists and arrays are sequences (index 1 here is index 0 in    *)
(* the source).                                                            *)
(***************************************************************************)
EXTENDS Integers, Sequences, FiniteSets, TLC

VARIABLES
  heap,        \* closure id -> the closure's captured variables
  methodized,  \* function reference -> its own _methodized property
  made,        \* the latest call of a closure-making method and what it returned
  last,        \* the latest invocation of a function and the calls it led to
  timers,      \* the host scheduler: token -> the pending timer, or NoTimer
  tokens,      \* the number of tokens window.setTimeout has handed out
  scheduled,   \* n -> the n-th call of delay or defer and what it returned
  fired,       \* n -> the call logs of the dispatches of the n-th timer
  cancelled,   \* the n whose returned token was cancelled before dispatch
  decl,        \* argumentNames: the declaration the function was written with
  names        \* argumentNames: the outcome

vars ==
  <<heap, methodized, made, last, timers, tokens, scheduled, fired, cancelled,
    decl, names>>

closureVars == <<heap, methodized, made, last>>
schedVars == <<timers, tokens, scheduled, fired, cancelled>>
nameVars == <<decl, names>>

----------------------------------------------------------------------------
(* Bounds of the model *)

MaxClosures == 2     \* closures alive at once
MaxArgs == 1         \* length of a preset or an invocation argument list
MaxTimers == 2       \* timers scheduled in one run
MaxParams == 2       \* declared parameters of a function

----------------------------------------------------------------------------
(* Values *)

Undefined == "undefined"
Null == "null"
Window == "window"

\* The functions the user wrote; each records how it was called.
UserFns == {"F1"}
\* Function.prototype is itself a function object, and the object every other
\* function inherits its properties from.
FunctionPrototype == "Function.prototype"
BaseFns == UserFns \cup {FunctionPrototype}
\* The wrapper functions handed to wrap: one calls its first argument with
\* the arguments that follow, the other never calls it.
Wrappers == {"WAround", "WSkip"}

ClosureName == <<"c1", "c2", "c3", "c4">>
ClosureIds == {ClosureName[i] : i \in 1..MaxClosures}
\* The bound function a wrap closure makes during one invocation of it.
BoundName == [c1 |-> "b1", c2 |-> "b2", c3 |-> "b3", c4 |-> "b4"]
BoundIds == {BoundName[c] : c \in ClosureIds}
TimerFn == "timerfn"
HeapIds == ClosureIds \cup BoundIds

\* The contexts handed to bind, and those a caller invokes a function on.
BoundContexts == {Undefined, "o1"}
Contexts == {Undefined, "o2"}
\* Preset and invocation arguments: the k-th of each is its own value.
PresetValues == <<"p1", "p2", "p3">>
CallValues == <<"x1", "x2", "x3">>
FalsyValues == {Undefined, Null, "0"}
EventValues == {"ev", "0", Undefined}
AmbientValues == {Undefined, "winev"}

PresetLists == {SubSeq(PresetValues, 1, k) : k \in 0..MaxArgs}
CallLists == {SubSeq(CallValues, 1, k) : k \in 0..MaxArgs}

NoClosure ==
  [kind |-> "none", method |-> Undefined, context |-> Undefined,
   args |-> <<>>, wrapper |-> Undefined]

Closure(kind, method, context, args, wrapper) ==
  [kind |-> kind, method |-> method, context |-> context,
   args |-> args, wrapper |-> wrapper]

----------------------------------------------------------------------------
(* Language semantics the source relies on *)

\* Object.isUndefined(x)
isUndefined(x) == x = Undefined

\* arguments[i] (i counted from 0): undefined past the end
Arg(arguments, i) ==
  IF i + 1 <= Len(arguments) THEN arguments[i + 1] ELSE Undefined

\* slice.call(array, n): a new array holding array[n..]
slice(array, n) == SubSeq(array, n + 1, Len(array))

\* The value of `this` inside a function of this (non-strict) file that was
\* called with thisArg: the global object when none was given.
ThisValue(thisArg) ==
  IF thisArg \in {Undefined, Null} THEN Window ELSE thisArg

\* a || b
Or(a, b) == IF a \in FalsyValues THEN b ELSE a

----------------------------------------------------------------------------
(* update and merge *)

\* update(array, args): writes args behind array's elements, in array itself,
\* and returns array.
update(array, args) == array \o args

\* merge(array, args): update applied to a copy of array.  `result` is what
\* merge returns, `array` is the caller's array afterwards.
\* (merge_NoCopy: update applied to array itself.)
merge_NoCopy(array, args) ==
  [result |-> update(array, args), array |-> update(array, args)]
merge(array, args) ==
  [result |-> update(slice(array, 0), args), array |-> array]

----------------------------------------------------------------------------
(* The methods that make closures.  Each returns either an existing        *)
(* function (fresh = FALSE, ret) or the captured variables of a new        *)
(* closure (fresh = TRUE, closure).                                        *)

Existing(ref) == [fresh |-> FALSE, ret |-> ref, closure |-> NoClosure]
Fresh(closure) == [fresh |-> TRUE, ret |-> Undefined, closure |-> closure]

\* Function#bind(context, args...)
\* (bind_AnyUndefinedContext: without the test of arguments.length.)
bind_AnyUndefinedContext(this, arguments) ==
  IF isUndefined(Arg(arguments, 0)) THEN Existing(this)
  ELSE Fresh(Closure("bind", this, Arg(arguments, 0), slice(arguments, 1),
                     Undefined))
bind(this, arguments) ==
  IF Len(arguments) < 2 /\ isUndefined(Arg(arguments, 0)) THEN Existing(this)
  ELSE Fresh(Closure("bind", this, Arg(arguments, 0), slice(arguments, 1),
                     Undefined))

\* Function#bindAsEventListener(context, args...)
bindAsEventListener(this, arguments) ==
  Fresh(Closure("listener", this, Arg(arguments, 0), slice(arguments, 1),
                Undefined))

\* Function#curry(args...)
curry(this, arguments) ==
  IF Len(arguments) = 0 THEN Existing(this)
  ELSE Fresh(Closure("curry", this, Undefined, slice(arguments, 0), Undefined))

\* Function#wrap(wrapper)
wrap(this, wrapper) ==
  Fresh(Closure("wrap", this, Undefined, <<>>, wrapper))

\* this._methodized: the function's own property, else the one it inherits
\* from Function.prototype.
GetMethodized(m, this) ==
  IF m[this] # Undefined THEN m[this]
  ELSE IF this # FunctionPrototype THEN m[FunctionPrototype]
  ELSE Undefined

\* Function#methodize()
methodize(this, m) ==
  IF GetMethodized(m, this) # Undefined THEN Existing(GetMethodized(m, this))
  ELSE Fresh(Closure("methodized", this, Undefined, <<>>, Undefined))

----------------------------------------------------------------------------
(* Calling a function.  Invoke gives the calls of user functions and       *)
(* wrappers the invocation makes, in order, what it returns, and the heap  *)
(* afterwards.                                                             *)

\* What a user function returns.  Function.prototype returns undefined.
BaseResult(ref) == IF ref \in UserFns THEN "r1" ELSE Undefined

\* One observed call, with what it returned.  `bound` shows the closure
\* behind a first argument that is a bound function made for this call.
CallRec(fn, thisArg, arguments, ret, h) ==
  [fn |-> fn, this |-> thisArg, args |-> arguments, ret |-> ret,
   bound |-> IF Len(arguments) > 0 /\ arguments[1] \in BoundIds
             THEN h[arguments[1]] ELSE NoClosure]

\* The closure's captured `args` array after a call.
Store(h, ref, array) ==
  IF ref \in DOMAIN h THEN [h EXCEPT ![ref].args = array] ELSE h

RECURSIVE Invoke(_, _, _, _, _)

\* bind's returned function
\* (bindInner_CallerContext: applied on this instead of context.)
bindInner_CallerContext(c, ref, thisArg, arguments, h, env) ==
  Invoke(c.method, thisArg, c.args \o arguments, h, env)
bindInner(c, ref, thisArg, arguments, h, env) ==
  IF Len(c.args) > 0
  THEN LET m == IF Len(arguments) > 0 THEN merge(c.args, arguments)
                ELSE [result |-> c.args, array |-> c.args]
       IN Invoke(c.method, c.context, m.result, Store(h, ref, m.array), env)
  ELSE Invoke(c.method, c.context, arguments, h, env)

\* bindAsEventListener's returned function(event)
\* (listenerInner_EventLast: the event appended to args, not args to it.)
listenerInner_EventLast(c, ref, thisArg, arguments, h, env) ==
  Invoke(c.method, c.context,
         update(c.args, <<Or(Arg(arguments, 0), env.event)>>), h, env)
listenerInner(c, ref, thisArg, arguments, h, env) ==
  LET event == Arg(arguments, 0) IN
  IF Len(c.args) > 0
  THEN LET a == update(<<Or(event, env.event)>>, c.args)
       IN Invoke(c.method, c.context, a, h, env)
  ELSE Invoke(c.method, c.context, <<Or(event, env.event)>>, h, env)

\* curry's returned function
curryInner(c, ref, thisArg, arguments, h, env) ==
  LET m == IF Len(arguments) > 0 THEN merge(c.args, arguments)
           ELSE [result |-> c.args, array |-> c.args]
  IN Invoke(c.method, ThisValue(thisArg), m.result, Store(h, ref, m.array), env)

\* wrap's returned function
\* (wrapInner_Unbound: __method passed without bind(this).)
wrapInner_Unbound(c, ref, thisArg, arguments, h, env) ==
  Invoke(c.wrapper, ThisValue(thisArg), update(<<c.method>>, arguments), h, env)
wrapInner(c, ref, thisArg, arguments, h, env) ==
  LET this == ThisValue(thisArg)
      b == bind(c.method, <<this>>)
      bref == IF b.fresh THEN BoundName[ref] ELSE b.ret
      h1 == IF b.fresh THEN [h EXCEPT ![bref] = b.closure] ELSE h
  IN IF Len(arguments) > 0
     THEN Invoke(c.wrapper, this, update(<<bref>>, arguments), h1, env)
     ELSE Invoke(c.wrapper, this, <<bref>>, h1, env)

\* methodize's returned function
\* (methodizedInner_AsMethod: applied on this instead of null.)
methodizedInner_AsMethod(c, ref, thisArg, arguments, h, env) ==
  Invoke(c.method, ThisValue(thisArg),
         update(<<ThisValue(thisArg)>>, arguments), h, env)
methodizedInner(c, ref, thisArg, arguments, h, env) ==
  LET this == ThisValue(thisArg) IN
  IF Len(arguments) > 0
  THEN Invoke(c.method, Null, update(<<this>>, arguments), h, env)
  ELSE Invoke(c.method, Undefined, <<this>>, h, env)

\* delay's fn, the function handed to window.setTimeout
delayFn(c, ref, thisArg, arguments, h, env) ==
  IF Len(c.args) > 0
  THEN Invoke(c.method, c.method, c.args, h, env)
  ELSE Invoke(c.method, c.method, <<>>, h, env)

\* The body of closure c, known as ref.
Run(c, ref, thisArg, arguments, h, env) ==
  CASE c.kind = "bind" -> bindInner(c, ref, thisArg, arguments, h, env)
    [] c.kind = "listener" -> listenerInner(c, ref, thisArg, arguments, h, env)
    [] c.kind = "curry" -> curryInner(c, ref, thisArg, arguments, h, env)
    [] c.kind = "wrap" -> wrapInner(c, ref, thisArg, arguments, h, env)
    [] c.kind = "methodized" ->
         methodizedInner(c, ref, thisArg, arguments, h, env)
    [] c.kind = "delayed" -> delayFn(c, ref, thisArg, arguments, h, env)

Invoke(ref, thisArg, arguments, h, env) ==
  IF ref \in BaseFns
  THEN [calls |-> <<CallRec(ref, thisArg, arguments, BaseResult(ref), h)>>,
        ret |-> BaseResult(ref), h |-> h]
  ELSE IF ref = "WSkip"
  THEN [calls |-> <<CallRec(ref, thisArg, arguments, "skipped", h)>>,
        ret |-> "skipped", h |-> h]
  ELSE IF ref = "WAround"
  THEN LET inner == Invoke(arguments[1], Undefined, Tail(arguments), h, env)
       IN [calls |-> <<CallRec(ref, thisArg, arguments, inner.ret, h)>>
                       \o inner.calls,
           ret |-> inner.ret, h |-> inner.h]
  ELSE LET r == Run(h[ref], ref, thisArg, arguments, h, env)
       IN [calls |-> <<CallRec(ref, thisArg, arguments, r.ret, h)>> \o r.calls,
           ret |-> r.ret, h |-> r.h]

----------------------------------------------------------------------------
(* State and actions of the closure-making methods *)

Allocated(h) == {id \in ClosureIds : h[id].kind # "none"}
NextId(h) == ClosureName[Cardinality(Allocated(h)) + 1]
HasRoom(h) == Cardinality(Allocated(h)) < MaxClosures
\* The functions a method is called on or a caller invokes.  (The model
\* calls only methodize on Function.prototype, the one method that reads a
\* property a function inherits from it.)
Callables(h) == UserFns \cup Allocated(h)
FnRefs == BaseFns \cup ClosureIds

NoMade == [op |-> "none", target |-> Undefined, args |-> <<>>, ret |-> Undefined]
NoCall ==
  [target |-> Undefined, this |-> Undefined, args |-> <<>>, calls |-> <<>>,
   ret |-> Undefined, event |-> Undefined]

\* The argument lists bind and bindAsEventListener are called with.
BindArgLists ==
  {<<>>} \cup {<<c>> \o ps : c \in BoundContexts, ps \in PresetLists}
\* The argument lists a function is invoked with: an event listener receives
\* an event (or nothing), any other function plain values.
CallArgLists(h, ref) ==
  IF ref \in ClosureIds /\ h[ref].kind = "listener"
  THEN {<<>>} \cup {<<e>> : e \in EventValues \ {Undefined}}
  ELSE CallLists
\* window.event at the time of the invocation.
Ambients(h, ref) ==
  IF ref \in ClosureIds /\ h[ref].kind = "listener"
  THEN AmbientValues ELSE {Undefined}

ClosureInit ==
  /\ heap = [id \in HeapIds |-> NoClosure]
  /\ methodized = [f \in FnRefs |-> Undefined]
  /\ made = NoMade
  /\ last = NoCall

\* The method `op` called on `this` returned r: a new closure is a new object.
Make(op, this, arguments, r) ==
  /\ r.fresh => HasRoom(heap)
  /\ heap' = IF r.fresh THEN [heap EXCEPT ![NextId(heap)] = r.closure] ELSE heap
  /\ made' = [op |-> op, target |-> this, args |-> arguments,
              ret |-> IF r.fresh THEN NextId(heap) ELSE r.ret]
  /\ last' = NoCall

Bind ==
  \E f \in Callables(heap), arguments \in BindArgLists :
    /\ Make("bind", f, arguments, bind(f, arguments))
    /\ UNCHANGED <<methodized, schedVars, nameVars>>

BindAsEventListener ==
  \E f \in Callables(heap), arguments \in BindArgLists :
    /\ Make("bindAsEventListener", f, arguments,
            bindAsEventListener(f, arguments))
    /\ UNCHANGED <<methodized, schedVars, nameVars>>

Curry ==
  \E f \in Callables(heap), arguments \in PresetLists :
    /\ Make("curry", f, arguments, curry(f, arguments))
    /\ UNCHANGED <<methodized, schedVars, nameVars>>

Wrap ==
  \E f \in Callables(heap), wrapper \in Wrappers :
    /\ Make("wrap", f, <<wrapper>>, wrap(f, wrapper))
    /\ UNCHANGED <<methodized, schedVars, nameVars>>

Methodize ==
  \E f \in Callables(heap) \cup {FunctionPrototype} :
    LET r == methodize(f, methodized) IN
    /\ Make("methodize", f, <<>>, r)
    /\ methodized' = IF r.fresh THEN [methodized EXCEPT ![f] = NextId(heap)]
                     ELSE methodized
    /\ UNCHANGED <<schedVars, nameVars>>

\* Some caller invokes a function with context thisArg and arguments xs.
\* `made` is kept while the function invoked is the one it returned.
Call ==
  \E ref \in Callables(heap), thisArg \in Contexts :
    \E xs \in CallArgLists(heap, ref), ev \in Ambients(heap, ref) :
      LET r == Invoke(ref, thisArg, xs, heap, [event |-> ev]) IN
      /\ heap' = [id \in HeapIds |->
                    IF id \in ClosureIds THEN r.h[id] ELSE NoClosure]
      /\ last' = [target |-> ref, this |-> thisArg, args |-> xs,
                  calls |-> r.calls, ret |-> r.ret, event |-> ev]
      /\ made' = IF made.ret = ref THEN made ELSE NoMade
      /\ UNCHANGED <<methodized, schedVars, nameVars>>

SchedIdle ==
  /\ timers = <<>> /\ tokens = 0 /\ scheduled = <<>> /\ fired = <<>>
  /\ cancelled = {}
NamesIdle ==
  /\ decl = <<>> /\ names = <<>>

Init == ClosureInit /\ SchedIdle /\ NamesIdle

\* bind and curry
Next ==
  \/ Bind
  \/ Curry
  \/ Call

Spec == Init /\ [][Next]_vars

\* bindAsEventListener
NextListener ==
  \/ BindAsEventListener
  \/ Call

SpecListener == Init /\ [][NextListener]_vars

\* wrap and methodize
NextWrap ==
  \/ Wrap
  \/ Methodize
  \/ Call

SpecWrap == Init /\ [][NextWrap]_vars

----------------------------------------------------------------------------
(* delay and defer, and the host's scheduler *)

\* Seconds are counted in hundredths, so that defer's 0.01 is 1, and
\* `timeout * 1000` milliseconds is ten times the hundredths.
DeferSeconds == 1
MillisPerHundredth == 10
\* The delays delay is called with, in hundredths of a second.
DelaySeconds == {0, 10}

NoTimer == [fn |-> NoClosure, timeout |-> 0]
Tokens == 1..MaxTimers

\* Function#delay(seconds, args...): fn goes to window.setTimeout with the
\* timeout, whose token is returned; `calls` are the calls made meanwhile.
\* (delay_ReturnsTimeout: returns timeout; delay_Synchronous: calls at once.)
delay_ReturnsTimeout(this, arguments, token) ==
  [fn |-> Closure("delayed", this, Undefined, slice(arguments, 1), Undefined),
   timeout |-> Arg(arguments, 0) * MillisPerHundredth,
   calls |-> <<>>,
   ret |-> Arg(arguments, 0) * MillisPerHundredth]
delay_Synchronous(this, arguments, token) ==
  [fn |-> Closure("delayed", this, Undefined, slice(arguments, 1), Undefined),
   timeout |-> Arg(arguments, 0) * MillisPerHundredth,
   calls |-> Invoke(this, this, slice(arguments, 1),
                    [id \in HeapIds |-> NoClosure], [event |-> Undefined]).calls,
   ret |-> token]
delay(this, arguments, token) ==
  [fn |-> Closure("delayed", this, Undefined, slice(arguments, 1), Undefined),
   timeout |-> Arg(arguments, 0) * MillisPerHundredth,
   calls |-> <<>>,
   ret |-> token]

\* Function#defer(args...)
defer(this, arguments, token) ==
  IF Len(arguments) > 0
  THEN delay(this, update(<<DeferSeconds>>, arguments), token)
  ELSE delay(this, <<DeferSeconds>>, token)

\* window.clearTimeout(token)
clearTimeout(ts, token) ==
  IF token \in DOMAIN ts THEN [ts EXCEPT ![token] = NoTimer] ELSE ts

SchedInit ==
  /\ timers = [n \in Tokens |-> NoTimer]
  /\ tokens = 0
  /\ scheduled = [n \in Tokens |-> NoMade]
  /\ fired = [n \in Tokens |-> <<>>]
  /\ cancelled = {}

\* window.setTimeout(r.fn, r.timeout) hands out the next token.
Schedule(op, this, arguments, r) ==
  /\ timers' = [timers EXCEPT ![tokens + 1] = [fn |-> r.fn, timeout |-> r.timeout]]
  /\ tokens' = tokens + 1
  /\ scheduled' = [scheduled EXCEPT ![tokens + 1] =
                     [op |-> op, target |-> this, args |-> arguments,
                      ret |-> r.ret]]
  /\ last' = [NoCall EXCEPT !.target = this, !.calls = r.calls]
  /\ UNCHANGED <<heap, methodized, made, fired, cancelled, nameVars>>

Delay ==
  \E f \in UserFns, seconds \in DelaySeconds, ps \in PresetLists :
    /\ tokens < MaxTimers
    /\ Schedule("delay", f, <<seconds>> \o ps,
                delay(f, <<seconds>> \o ps, tokens + 1))

Defer ==
  \E f \in UserFns, ps \in PresetLists :
    /\ tokens < MaxTimers
    /\ Schedule("defer", f, ps, defer(f, ps, tokens + 1))

\* The caller cancels the n-th timer, still pending, with the token that
\* delay or defer returned for it.
Cancel(n) ==
  /\ n <= tokens
  /\ timers[n] # NoTimer
  /\ timers' = clearTimeout(timers, scheduled[n].ret)
  /\ cancelled' = cancelled \cup {n}
  /\ UNCHANGED <<heap, methodized, made, last, tokens, scheduled, fired,
                 nameVars>>

\* On a later turn the host runs the n-th timer's function, once, on the
\* global object; some hosts hand it an argument of their own.
Dispatch(n) ==
  /\ n <= tokens
  /\ timers[n] # NoTimer
  /\ \E extra \in {<<>>, <<"lateness">>} :
       fired' = [fired EXCEPT ![n] =
                   Append(@, Run(timers[n].fn, TimerFn, Window, extra, heap,
                                 [event |-> Undefined]).calls)]
  /\ timers' = [timers EXCEPT ![n] = NoTimer]
  /\ UNCHANGED <<heap, methodized, made, last, tokens, scheduled, cancelled,
                 nameVars>>

InitSched == ClosureInit /\ SchedInit /\ NamesIdle

NextSched ==
  \/ Delay
  \/ Defer
  \/ \E n \in Tokens : Cancel(n)
  \/ \E n \in Tokens : Dispatch(n)

\* The host dispatches every timer that stays pending.
SpecSched ==
  /\ InitSched
  /\ [][NextSched]_vars
  /\ \A n \in Tokens : WF_vars(Dispatch(n))

----------------------------------------------------------------------------
(* argumentNames.  A text is a sequence of one-character strings.          *)

FunctionKeyword == <<"f", "u", "n", "c", "t", "i", "o", "n">>
\* \s
WhiteSpace == {" ", "\n", "\r", "\t"}
\* [\r\n], the characters `.` does not match
LineEnds == {"\n", "\r"}

\* The least index j >= i of s with s[j] in S (or, with `inside` FALSE, not
\* in S); Len(s) + 1 when there is none.
First(s, i, S, inside) ==
  LET J == {j \in i..Len(s) : (s[j] \in S) = inside}
  IN IF J = {} THEN Len(s) + 1 ELSE CHOOSE j \in J : \A k \in J : j <= k

\* text.match(/^[\s\(]*function[^(]*\(([^)]*)\)/): the first group, when the
\* text matches.
Match(text) ==
  LET start == First(text, 1, WhiteSpace \cup {"("}, FALSE)
      open == First(text, start + 8, {"("}, TRUE)
      close == First(text, open + 1, {")"}, TRUE)
  IN IF /\ start + 7 <= Len(text)
        /\ SubSeq(text, start, start + 7) = FunctionKeyword
        /\ close <= Len(text)
     THEN [matched |-> TRUE, group |-> SubSeq(text, open + 1, close - 1)]
     ELSE [matched |-> FALSE, group |-> <<>>]

\* The least k >= i with s[k], s[k+1] = "*", "/"; Len(s) + 1 when none.
FirstStarSlash(s, i) ==
  LET K == {k \in i..(Len(s) - 1) : s[k] = "*" /\ s[k + 1] = "/"}
  IN IF K = {} THEN Len(s) + 1 ELSE CHOOSE k \in K : \A j \in K : k <= j

\* s.replace(/\/\/.*?[\r\n]|\/\*(?:.|[\r\n])*?\*\//g, ''), from index i on
RECURSIVE StripComments(_, _)
StripComments(s, i) ==
  IF i > Len(s) THEN <<>>
  ELSE IF /\ i < Len(s) /\ s[i] = "/" /\ s[i + 1] = "/"
          /\ First(s, i + 2, LineEnds, TRUE) <= Len(s)
  THEN StripComments(s, First(s, i + 2, LineEnds, TRUE) + 1)
  ELSE IF /\ i < Len(s) /\ s[i] = "/" /\ s[i + 1] = "*"
          /\ FirstStarSlash(s, i + 2) <= Len(s)
  THEN StripComments(s, FirstStarSlash(s, i + 2) + 2)
  ELSE <<s[i]>> \o StripComments(s, i + 1)

\* s.replace(/\s+/g, '')
NotSpace(ch) == ch \notin WhiteSpace
StripSpace(s) == SelectSeq(s, NotSpace)

\* s.split(','): never empty, '' gives ['']
RECURSIVE Split(_)
Split(s) ==
  LET c == First(s, 1, {","}, TRUE)
  IN IF c > Len(s) THEN <<s>>
     ELSE <<SubSeq(s, 1, c - 1)>> \o Split(SubSeq(s, c + 1, Len(s)))

\* Function#argumentNames(), on the text this.toString() gives.  A text
\* that does not match makes match return null, and null[1] throws.
argumentNames(text) ==
  IF ~Match(text).matched THEN [error |-> TRUE, value |-> <<>>]
  ELSE LET found ==
             Split(StripSpace(StripComments(Match(text).group, 1)))
       IN [error |-> FALSE,
           value |-> IF Len(found) = 1 /\ found[1] = <<>> THEN <<>>
                     ELSE found]

\* What a declaration is written with between its parameter names: nothing,
\* white space, block comments and inline comments.
Pieces ==
  { <<>>, <<" ">>, <<"\n", " ">>,
    <<"/", "*", "x", "*", "/">>,
    <<"/", "*", ",", "*", "/">>,
    <<"/", "*", ")", "*", "/">>,
    <<"/", "/", "x", ",", "\n">> }
ParamNames == {<<"a">>, <<"b", "c">>}
Params == [before : Pieces, name : ParamNames]
\* function(...){}, function f(...){}, and the arrow form (...)=>0
Shapes == {"function", "named", "arrow"}
Decls ==
  [shape : Shapes,
   params : UNION {[1..n -> Params] : n \in 0..MaxParams},
   after : Pieces]

RECURSIVE ParamsText(_)
ParamsText(ps) ==
  IF ps = <<>> THEN <<>>
  ELSE ps[1].before \o ps[1].name
         \o (IF Len(ps) > 1 THEN <<",">> ELSE <<>>) \o ParamsText(Tail(ps))

\* this.toString(): the function's declaration as written.
DeclarationText(d) ==
  (CASE d.shape = "function" -> FunctionKeyword
     [] d.shape = "named" -> FunctionKeyword \o <<" ", "f">>
     [] d.shape = "arrow" -> <<>>)
    \o <<"(">> \o ParamsText(d.params) \o d.after \o <<")">>
    \o (IF d.shape = "arrow" THEN <<"=", ">", "0">> ELSE <<"{", "}">>)

NotRun == [error |-> FALSE, value |-> <<"?">>]

InitNames ==
  /\ heap = <<>> /\ methodized = <<>> /\ made = NoMade /\ last = NoCall
  /\ SchedIdle
  /\ decl \in Decls
  /\ names = NotRun

ArgumentNames ==
  /\ names = NotRun
  /\ names' = argumentNames(DeclarationText(decl))
  /\ UNCHANGED <<closureVars, schedVars, decl>>

NextNames ==
  \/ ArgumentNames

SpecNames == InitNames /\ [][NextNames]_vars

----------------------------------------------------------------------------
(* Properties of the closure-making methods *)

\* The context a caller's invocation runs on: the global object when the
\* function is invoked without a receiver.
CallerContext == IF last.this = Undefined THEN Window ELSE last.this

\* Indices of the calls of f that the latest invocation led to.
CallsOf(f) == {i \in DOMAIN last.calls : last.calls[i].fn = f}

\* The latest invocation called f exactly once, on `this` with `arguments`,
\* and returned what f returned.
CalledOnce(f, this, arguments) ==
  /\ Cardinality(CallsOf(f)) = 1
  /\ \A i \in CallsOf(f) :
       /\ last.calls[i].this = this
       /\ last.calls[i].args = arguments
       /\ last.calls[i].ret = last.ret

\* The latest invocation was of the function the latest `op` returned.
Invoked(op) == made.op = op /\ last.target = made.ret

\* C1 as stated: for every f, ctx, ps and xs, invoking what
\* bind(f, ctx, ps...) returned with xs, from any caller context, calls f
\* exactly once on ctx with ps followed by xs and returns f's result.
C1_BindAnyContext ==
  Invoked("bind") =>
    CalledOnce(made.target, Arg(made.args, 0),
               slice(made.args, 1) \o last.args)

\* C1 amended: the same, for a bind that was given a context other than
\* undefined or at least one preset argument.
C1_Bind ==
  (Invoked("bind") /\ (Arg(made.args, 0) # Undefined \/ Len(made.args) >= 2))
    => /\ CalledOnce(made.target, Arg(made.args, 0),
                     slice(made.args, 1) \o last.args)
       /\ Len(last.calls) >= 2
       /\ last.calls[2].fn = made.target

\* A bound function with a preset argument was invoked with an argument by
\* a caller whose context is another object than the bound one.
C1_Witness ==
  /\ Invoked("bind")
  /\ made.args = <<"o1", "p1">>
  /\ last.this = "o2"
  /\ last.args = <<"x1">>
  /\ last.ret = "r1"

\* C2: what curry(f, ps...) returned for a non-empty ps calls f, on every
\* invocation with xs, on the caller's context of that invocation with ps
\* followed by xs, and the captured ps stays what curry was given.
C2_Curry ==
  (made.op = "curry" /\ Len(made.args) > 0) =>
    /\ heap[made.ret].args = made.args
    /\ last.target = made.ret =>
         /\ CalledOnce(made.target, CallerContext, made.args \o last.args)
         /\ last.calls[2].fn = made.target

\* A curried function was invoked with an argument on an object.
C2_Witness ==
  /\ Invoked("curry")
  /\ made.args = <<"p1">>
  /\ last.this = "o2"
  /\ last.args = <<"x1">>
  /\ made.target \in ClosureIds

\* C9: bind without any argument and curry without any argument return the
\* function itself; bind with a preset argument or a defined context, and
\* curry with an argument, return another function.
C9_Identity ==
  /\ made.op = "bind" =>
       /\ Len(made.args) = 0 => made.ret = made.target
       /\ (Len(made.args) >= 2 \/ Arg(made.args, 0) # Undefined)
            => made.ret # made.target
  /\ made.op = "curry" =>
       /\ Len(made.args) = 0 => made.ret = made.target
       /\ Len(made.args) >= 1 => made.ret # made.target

\* bind was given an undefined context and a preset argument.
C9_Witness ==
  /\ made.op = "bind"
  /\ made.args = <<Undefined, "p1">>
  /\ made.ret # made.target

\* C8 as stated: what bindAsEventListener(f, ctx, ps...) returned calls f on
\* ctx with e followed by ps whenever an event e is passed, and with the
\* ambient event in its place only when none is passed.
C8_PresentEvent ==
  Invoked("bindAsEventListener") =>
    CalledOnce(made.target, Arg(made.args, 0),
               <<IF Arg(last.args, 0) # Undefined THEN Arg(last.args, 0)
                 ELSE last.event>> \o slice(made.args, 1))

\* C8 amended: e is passed on whenever it is truthy; when it is absent or
\* any other falsy value (null, 0) the ambient event takes its place.
C8_Listener ==
  Invoked("bindAsEventListener") =>
    /\ CalledOnce(made.target, Arg(made.args, 0),
                  <<IF Arg(last.args, 0) \notin FalsyValues
                    THEN Arg(last.args, 0) ELSE last.event>>
                    \o slice(made.args, 1))
    /\ last.calls[2].fn = made.target

\* A listener with a preset argument received an event object while the
\* host had another ambient event.
C8_Witness ==
  /\ Invoked("bindAsEventListener")
  /\ made.args = <<"o1", "p1">>
  /\ last.args = <<"ev">>
  /\ last.event = "winev"
  /\ last.this = "o2"

\* C5: what wrap(f, w) returned, invoked on c with xs, calls w once on c
\* with a version of f bound to c followed by xs; f is called only when w
\* calls that first argument, and not at all when w never does.
C5_Wrap ==
  Invoked("wrap") =>
    LET k == last.calls
        f == made.target
        w == made.args[1]
    IN /\ Len(k) >= 2
       /\ k[1].fn = made.ret
       /\ k[2].fn = w
       /\ k[2].this = CallerContext
       /\ Len(k[2].args) = Len(last.args) + 1
       /\ Tail(k[2].args) = last.args
       /\ k[2].args[1] \in BoundIds
       /\ k[2].bound = Closure("bind", f, CallerContext, <<>>, Undefined)
       /\ w = "WSkip" => Len(k) = 2 /\ CallsOf(f) = {}
       /\ w = "WAround" =>
            /\ Len(k) >= 4
            /\ k[3].fn = k[2].args[1]
            /\ k[4].fn = f
            /\ k[4].this = CallerContext
            /\ k[4].args = last.args
            /\ CallsOf(f) = {4}

\* A wrapped function whose wrapper calls through was invoked on an object
\* with an argument.
C5_Witness ==
  /\ Invoked("wrap")
  /\ made.args = <<"WAround">>
  /\ last.this = "o2"
  /\ last.args = <<"x1">>
  /\ last.ret = "r1"

\* C6: the methodize cache is keyed by the function: methodize(g) returns
\* the function produced for g, held in g's own slot, and no two functions
\* hold the same one.
C6_CachePerFunction ==
  /\ made.op = "methodize" =>
       /\ methodized[made.target] = made.ret
       /\ heap[made.ret].kind = "methodized"
       /\ heap[made.ret].method = made.target
  /\ \A f, g \in FnRefs :
       (f # g /\ methodized[f] # Undefined) => methodized[f] # methodized[g]

\* C7: the function methodize produced for f, invoked as a method of r with
\* xs, calls f exactly once with r followed by xs, on no context (never on
\* r), and returns f's result.
C7_Methodized ==
  (last.target \in ClosureIds /\ heap[last.target].kind = "methodized") =>
    LET f == heap[last.target].method
    IN /\ Cardinality(CallsOf(f)) = 1
       /\ last.calls[2].fn = f
       /\ last.calls[2].args = <<CallerContext>> \o last.args
       /\ last.calls[2].this \in {Undefined, Null}
       /\ last.calls[2].ret = last.ret

\* A methodized function was invoked as a method of an object with an
\* argument.
C7_Witness ==
  /\ Invoked("methodize")
  /\ made.target = "F1"
  /\ last.this = "o2"
  /\ last.args = <<"x1">>
  /\ last.ret = "r1"

----------------------------------------------------------------------------
(* Properties of delay and defer *)

\* The preset arguments the n-th call of delay or defer was given.
ScheduledArgs(n) ==
  IF scheduled[n].op = "delay" THEN slice(scheduled[n].args, 1)
  ELSE scheduled[n].args

\* C3: a timer that was cancelled, with the token delay or defer returned,
\* before its dispatch never calls its function.
C3_Cancelled ==
  \A n \in cancelled : fired[n] = <<>> /\ timers[n] = NoTimer

\* The first timer was cancelled and a later one has run.
C3_Witness ==
  /\ 1 \in cancelled
  /\ scheduled[1].op = "delay"
  /\ scheduled[2].op = "defer"
  /\ fired[2] # <<>>

\* What C4 says of every state: delay and defer call nothing themselves;
\* a timer runs at most once, calling f on f itself with exactly the preset
\* arguments; defer asks for the minimal delay and delay for the given one.
C4_Safety ==
  /\ last.calls = <<>>
  /\ \A n \in Tokens :
       /\ Len(fired[n]) <= 1
       /\ fired[n] # <<>> =>
            fired[n][1] =
              <<[fn |-> scheduled[n].target, this |-> scheduled[n].target,
                 args |-> ScheduledArgs(n),
                 ret |-> BaseResult(scheduled[n].target),
                 bound |-> NoClosure]>>
       /\ timers[n] # NoTimer =>
            timers[n].timeout =
              IF scheduled[n].op = "defer" THEN 10 ELSE scheduled[n].args[1] * 10

\* C4: f is never invoked within the turn that calls delay or defer, and
\* absent cancellation it is invoked exactly once on a later turn, on f
\* itself with exactly the arguments given.
C4_LaterTurn ==
  /\ []C4_Safety
  /\ \A n \in Tokens :
       (scheduled[n].op # "none") ~> (n \in cancelled \/ Len(fired[n]) = 1)

\* A deferred and a delayed function with a preset argument have both run.
C4_Witness ==
  /\ scheduled[1].op = "defer"
  /\ scheduled[1].args = <<"p1">>
  /\ scheduled[2].op = "delay"
  /\ Len(fired[1]) = 1
  /\ Len(fired[2]) = 1
  /\ cancelled = {}

----------------------------------------------------------------------------
(* Properties of argumentNames *)

DeclaredNames(d) == [i \in 1..Len(d.params) |-> d.params[i].name]

\* C10: argumentNames returns exactly the declared parameter names, in
\* order, whatever white space and comments lie between them (the empty
\* sequence when there are none), and fails on a text that has not the
\* shape of a function declaration.
C10_DeclaredNames ==
  names # NotRun =>
    IF decl.shape = "arrow" THEN names.error
    ELSE ~names.error /\ names.value = DeclaredNames(decl)

\* The same, for declarations whose comments hold no closing parenthesis.
C10_NoParenInComments ==
  (/\ names # NotRun
   /\ decl.after # <<"/", "*", ")", "*", "/">>
   /\ \A i \in DOMAIN decl.params :
        decl.params[i].before # <<"/", "*", ")", "*", "/">>) =>
    IF decl.shape = "arrow" THEN names.error
    ELSE ~names.error /\ names.value = DeclaredNames(decl)

====
